---- MODULE Spec2Model ----
(***************************************************************************)
(* The Person/Address/Class/Account API of src/main.py: four in-memory     *)
(* dictionaries and, per collection, the create, list, get-by-id and       *)
(* PATCH handlers, together with the Pydantic shapes of src/models.        *)
(*                                                                         *)
(* A Python value is modelled as None (the empty tuple) or Some(v) (a      *)
(* one-element tuple); a Python dict as a function from field names to     *)
(* such values; an insertion-ordered dict of records as a sequence of      *)
(* [key, val] entries.                                                     *)
(***************************************************************************)
EXTENDS Naturals, Sequences, FiniteSets, TLC

(* ---------------------------------------------------------------- bounds *)
MaxRecords == 2
MaxClock == 1
MaxSet == 2
MaxStores == 1
MaxThreads == 2

UUIDs == 1..MaxRecords
Times == 0..MaxClock

Usernames == {"alice", "bob"}
NumberIds == {1, 2}
Amounts == {10, 20}
Names == {"Math 101", "Math 102"}
Descriptions == {"intro"}
Streets == {"116th St"}
Cities == {"NYC", "Boston"}
States == {"NY"}
PostalCodes == {"10027"}
Countries == {"US", "UK"}
Unis == {"ab1234"}
FirstNames == {"Ada"}
LastNames == {"Lovelace"}
Emails == {"ada@example.com"}
Phones == {"+1-212-555-0199"}
\* a date is <<year, month, day>>
BirthDates == {<<2000, 1, 15>>}

(* ------------------------------------------------------- python values *)
None == << >>
Some(v) == <<v>>
Opt(S) == {None} \cup {Some(v) : v \in S}
\* the same, for the payloads of the shapes of models/address.py and
\* models/person.py: whether those accept an explicit null is not modelled, a
\* field of theirs is None only when it is unset
Given(S) == Opt(S)
\* the set S, with its elements listed
Listed(S) == {x : x \in S}

\* a merge in which the stored value wins over the payload's
DictUpdate_keep(d, e) ==
    [f \in (DOMAIN d) \cup (DOMAIN e) |-> IF f \in DOMAIN d THEN d[f] ELSE e[f]]

\* a merge that adds the payload's amount to the stored one
DictUpdate_add(d, e) ==
    [f \in (DOMAIN d) \cup (DOMAIN e) |->
        IF f \notin DOMAIN e THEN d[f]
        ELSE IF f = "amount" /\ f \in DOMAIN d /\ e[f] # None
             THEN Some(d[f][1] + e[f][1])
             ELSE e[f]]

\* d.update(e): every key of e overrides or extends d
DictUpdate(d, e) ==
    [f \in (DOMAIN d) \cup (DOMAIN e) |-> IF f \in DOMAIN e THEN e[f] ELSE d[f]]

\* an insertion-ordered dict: membership, lookup, item assignment, values()
Keys(store) == {store[i].key : i \in 1..Len(store)}
Index(store, k) == CHOOSE i \in 1..Len(store) : store[i].key = k
Lookup(store, k) == store[Index(store, k)].val
\* an assignment that replaces the whole dict by the one entry
SetItem_evict(store, k, v) == << [key |-> k, val |-> v] >>
\* an assignment that deletes the key and inserts it again, at the end
SetItem_reinsert(store, k, v) ==
    LET Other(e) == e.key # k
    IN Append(SelectSeq(store, Other), [key |-> k, val |-> v])
SetItem(store, k, v) ==
    IF k \in Keys(store)
    THEN [store EXCEPT ![Index(store, k)] = [key |-> k, val |-> v]]
    ELSE Append(store, [key |-> k, val |-> v])
Values(store) == [i \in 1..Len(store) |-> store[i].val]

(* ----------------------------------------------------------------- state *)
VARIABLES persons, addresses, classes, accounts, now, uuids, last, threads
vars == <<persons, addresses, classes, accounts, now, uuids, last, threads>>

\* the response of a handler, with the handler's name and, for a PATCH, the
\* number of fields its payload set
Response(op, n, status, body) ==
    [op |-> op, n |-> n, status |-> status, body |-> body]
HTTPException(status_code, detail) == [status |-> status_code, detail |-> detail]
Raised(op, n, exc) == Response(op, n, exc.status, [detail |-> exc.detail])
\* an exception no handler catches: the framework answers 500
Unhandled(op, n, what) == Response(op, n, 500, [detail |-> what])

\* the bound on a create: room for one more record, in a collection that holds
\* records already or while fewer than MaxStores collections do
Stored == Len(persons) + Len(addresses) + Len(classes) + Len(accounts)
Used(store) == IF store = << >> THEN 0 ELSE 1
NonEmpty == Used(persons) + Used(addresses) + Used(classes) + Used(accounts)
Room(store) ==
    /\ Stored < MaxRecords
    /\ store # << >> \/ NonEmpty < MaxStores

(* --------------------------------------------------- models/account.py *)
AccountFields == {"username", "number_id", "amount"}

AccountCreate == [username : Usernames, number_id : NumberIds, amount : Amounts]

AccountUpdate ==
    Listed({u \in [fields_set : SUBSET AccountFields, username : Opt(Usernames),
                   number_id : Opt(NumberIds), amount : Opt(Amounts)] :
               /\ Cardinality(u.fields_set) <= MaxSet
               /\ \A f \in AccountFields \ u.fields_set : u[f] = None})

\* model_dump() of a Create or Read record; of an Update with exclude_unset
model_dump(r) == [f \in DOMAIN r |-> Some(r[f])]
model_dump_exclude_unset(u) == [f \in u.fields_set |-> u[f]]

\* AccountRead(**d): the Base fields are required and not nullable; id,
\* created_at and updated_at come from d when d has them, else from their
\* default factories (uuid4, then utcnow twice, in field order)
AccountRead_valid(d) ==
    /\ \A f \in AccountFields : f \in DOMAIN d /\ d[f] # None
    /\ \A f \in {"id", "created_at", "updated_at"} : f \in DOMAIN d => d[f] # None
\* an AccountRead whose id is always generated, whatever id it is given
AccountRead_fresh(d, uuid4, utcnow1, utcnow2) ==
    [username   |-> d.username[1],
     number_id  |-> d.number_id[1],
     amount     |-> d.amount[1],
     id         |-> uuid4,
     created_at |-> IF "created_at" \in DOMAIN d THEN d.created_at[1] ELSE utcnow1,
     updated_at |-> IF "updated_at" \in DOMAIN d THEN d.updated_at[1] ELSE utcnow2]
\* an AccountRead that stamps updated_at before created_at
AccountRead_swapped(d, uuid4, utcnow1, utcnow2) ==
    [username   |-> d.username[1],
     number_id  |-> d.number_id[1],
     amount     |-> d.amount[1],
     id         |-> IF "id" \in DOMAIN d THEN d.id[1] ELSE uuid4,
     created_at |-> IF "created_at" \in DOMAIN d THEN d.created_at[1] ELSE utcnow2,
     updated_at |-> IF "updated_at" \in DOMAIN d THEN d.updated_at[1] ELSE utcnow1]
AccountRead(d, uuid4, utcnow1, utcnow2) ==
    [username   |-> d.username[1],
     number_id  |-> d.number_id[1],
     amount     |-> d.amount[1],
     id         |-> IF "id" \in DOMAIN d THEN d.id[1] ELSE uuid4,
     created_at |-> IF "created_at" \in DOMAIN d THEN d.created_at[1] ELSE utcnow1,
     updated_at |-> IF "updated_at" \in DOMAIN d THEN d.updated_at[1] ELSE utcnow2]

(* --------------------------------------------------- models/classes.py *)
ClassFields == {"name", "description"}

\* description is Optional[str] with default None, in every Class shape
ClassCreate == [name : Names, description : Opt(Descriptions)]

ClassUpdate ==
    Listed({u \in [fields_set : SUBSET ClassFields, name : Opt(Names),
                   description : Opt(Descriptions)] :
               /\ Cardinality(u.fields_set) <= MaxSet
               /\ \A f \in ClassFields \ u.fields_set : u[f] = None})

\* model_dump() of a Class record: description already is None or Some(text)
class_model_dump(r) ==
    [f \in DOMAIN r |-> IF f = "description" THEN r[f] ELSE Some(r[f])]

\* ClassRead(**d): name is required and not nullable, description defaults to
\* None, created_at and updated_at default to utcnow; ClassRead has no id field
ClassRead_valid(d) ==
    /\ "name" \in DOMAIN d /\ d.name # None
    /\ \A f \in {"created_at", "updated_at"} : f \in DOMAIN d => d[f] # None
ClassRead(d, utcnow1, utcnow2) ==
    [name        |-> d.name[1],
     description |-> IF "description" \in DOMAIN d THEN d.description ELSE None,
     created_at  |-> IF "created_at" \in DOMAIN d THEN d.created_at[1] ELSE utcnow1,
     updated_at  |-> IF "updated_at" \in DOMAIN d THEN d.updated_at[1] ELSE utcnow2]

(* --------------------------------------------------- models/address.py *)
AddressFields == {"street", "city", "state", "postal_code", "country"}

\* the client supplies the id of an Address
AddressCreate ==
    [id : UUIDs, street : Streets, city : Cities, state : States,
     postal_code : PostalCodes, country : Countries]

AddressUpdate ==
    Listed({u \in [fields_set : SUBSET AddressFields, street : Given(Streets),
                   city : Given(Cities), state : Given(States),
                   postal_code : Given(PostalCodes), country : Given(Countries)] :
               /\ Cardinality(u.fields_set) <= MaxSet
               /\ \A f \in AddressFields \ u.fields_set : u[f] = None
               /\ \A f \in u.fields_set : u[f] # None})

AddressRead_valid(d) ==
    /\ \A f \in AddressFields \cup {"id"} : f \in DOMAIN d /\ d[f] # None
    /\ \A f \in {"created_at", "updated_at"} : f \in DOMAIN d => d[f] # None
AddressRead(d, utcnow1, utcnow2) ==
    [id          |-> d.id[1],
     street      |-> d.street[1],
     city        |-> d.city[1],
     state       |-> d.state[1],
     postal_code |-> d.postal_code[1],
     country     |-> d.country[1],
     created_at  |-> IF "created_at" \in DOMAIN d THEN d.created_at[1] ELSE utcnow1,
     updated_at  |-> IF "updated_at" \in DOMAIN d THEN d.updated_at[1] ELSE utcnow2]

(* ---------------------------------------------------- models/person.py *)
PersonFields ==
    {"uni", "first_name", "last_name", "email", "phone", "birth_date", "addresses"}

\* the embedded, Address-shaped entries of a Person
Embedded(city, country) ==
    [id |-> 1, street |-> "116th St", city |-> city, state |-> "NY",
     postal_code |-> "10027", country |-> country]
AddressLists ==
    { << >>,
      << Embedded("NYC", "US") >>,
      << Embedded("NYC", "US"), Embedded("Boston", "US") >>,
      << Embedded("NYC", "US"), Embedded("London", "UK") >> }

PersonCreate ==
    [uni : Unis, first_name : FirstNames, last_name : LastNames, email : Emails,
     phone : Phones, birth_date : BirthDates, addresses : AddressLists]

PersonUpdate ==
    Listed({u \in [fields_set : SUBSET PersonFields, uni : Given(Unis),
                   first_name : Given(FirstNames), last_name : Given(LastNames),
                   email : Given(Emails), phone : Given(Phones),
                   birth_date : Given(BirthDates), addresses : Given(AddressLists)] :
               /\ Cardinality(u.fields_set) <= MaxSet
               /\ \A f \in PersonFields \ u.fields_set : u[f] = None
               /\ \A f \in u.fields_set : u[f] # None})

PersonRead_valid(d) ==
    /\ \A f \in PersonFields : f \in DOMAIN d /\ d[f] # None
    /\ \A f \in {"id", "created_at", "updated_at"} : f \in DOMAIN d => d[f] # None
PersonRead(d, uuid4, utcnow1, utcnow2) ==
    [uni        |-> d.uni[1],
     first_name |-> d.first_name[1],
     last_name  |-> d.last_name[1],
     email      |-> d.email[1],
     phone      |-> d.phone[1],
     birth_date |-> d.birth_date[1],
     addresses  |-> d.addresses[1],
     id         |-> IF "id" \in DOMAIN d THEN d.id[1] ELSE uuid4,
     created_at |-> IF "created_at" \in DOMAIN d THEN d.created_at[1] ELSE utcnow1,
     updated_at |-> IF "updated_at" \in DOMAIN d THEN d.updated_at[1] ELSE utcnow2]

\* str(date): the ISO form YYYY-MM-DD, zero-padded, as a sequence of characters
Digit(n) == <<"0", "1", "2", "3", "4", "5", "6", "7", "8", "9">>[n + 1]
str_date(d) ==
    << Digit(d[1] \div 1000), Digit((d[1] \div 100) % 10), Digit((d[1] \div 10) % 10),
       Digit(d[1] % 10), "-", Digit(d[2] \div 10), Digit(d[2] % 10), "-",
       Digit(d[3] \div 10), Digit(d[3] % 10) >>

(* ------------------------------------------------------------- main.py *)
\* A handler is an operator from its arguments, and the state it reads, to its
\* outcome: the store as the handler leaves it and the response. The request
\* actions below apply the handlers to the state.
Outcome(store, response) == [store |-> store, response |-> response]

(* ---- Address endpoints ---- *)
\* create_address without its check for a stored id
create_address_overwrite(address, t1, t2) ==
    LET written == SetItem(addresses, address.id,
                           AddressRead(model_dump(address), t1, t2))
    IN Outcome(written, Response("create_address", 0, 201,
                                 Lookup(written, address.id)))

create_address(address, t1, t2) ==
    IF address.id \in Keys(addresses)
    THEN Outcome(addresses, Raised("create_address", 0,
                 HTTPException(400, "Address with this ID already exists")))
    ELSE LET written == SetItem(addresses, address.id,
                                AddressRead(model_dump(address), t1, t2))
         IN Outcome(written, Response("create_address", 0, 201,
                                      Lookup(written, address.id)))

list_addresses(q) ==
    LET r0 == Values(addresses)
        ByStreet(a) == a.street = q.street[1]
        r1 == IF q.street # None THEN SelectSeq(r0, ByStreet) ELSE r0
        ByCity(a) == a.city = q.city[1]
        r2 == IF q.city # None THEN SelectSeq(r1, ByCity) ELSE r1
        ByState(a) == a.state = q.state[1]
        r3 == IF q.state # None THEN SelectSeq(r2, ByState) ELSE r2
        ByPostalCode(a) == a.postal_code = q.postal_code[1]
        r4 == IF q.postal_code # None THEN SelectSeq(r3, ByPostalCode) ELSE r3
        ByCountry(a) == a.country = q.country[1]
        r5 == IF q.country # None THEN SelectSeq(r4, ByCountry) ELSE r4
    IN Outcome(addresses, Response("list_addresses", 0, 200, r5))

get_address(address_id) ==
    IF address_id \notin Keys(addresses)
    THEN Outcome(addresses,
                 Raised("get_address", 0, HTTPException(404, "Address not found")))
    ELSE Outcome(addresses,
                 Response("get_address", 0, 200, Lookup(addresses, address_id)))

update_address(address_id, update) ==
    IF address_id \notin Keys(addresses)
    THEN Outcome(addresses, Raised("update_address", Cardinality(update.fields_set),
                                   HTTPException(404, "Address not found")))
    ELSE LET stored == DictUpdate(model_dump(Lookup(addresses, address_id)),
                                  model_dump_exclude_unset(update))
         IN IF AddressRead_valid(stored)
            THEN LET written == SetItem(addresses, address_id,
                                        AddressRead(stored, 0, 0))
                 IN Outcome(written,
                            Response("update_address", Cardinality(update.fields_set),
                                     200, Lookup(written, address_id)))
            ELSE Outcome(addresses,
                         Unhandled("update_address", Cardinality(update.fields_set),
                                   "ValidationError"))

(* ---- Person endpoints ---- *)
create_person(person, uuid4, t1, t2) ==
    LET person_read == PersonRead(model_dump(person), uuid4, t1, t2)
    IN Outcome(SetItem(persons, person_read.id, person_read),
               Response("create_person", 0, 201, person_read))

\* all() where the handler has any()
AllCity(p, city) == \A i \in 1..Len(p.addresses) : p.addresses[i].city = city

\* any(pred(addr) for addr in p.addresses)
AnyCity(p, city) == \E i \in 1..Len(p.addresses) : p.addresses[i].city = city
AnyCountry(p, country) == \E i \in 1..Len(p.addresses) : p.addresses[i].country = country

list_persons(q) ==
    LET r0 == Values(persons)
        ByUni(p) == p.uni = q.uni[1]
        r1 == IF q.uni # None THEN SelectSeq(r0, ByUni) ELSE r0
        ByFirstName(p) == p.first_name = q.first_name[1]
        r2 == IF q.first_name # None THEN SelectSeq(r1, ByFirstName) ELSE r1
        ByLastName(p) == p.last_name = q.last_name[1]
        r3 == IF q.last_name # None THEN SelectSeq(r2, ByLastName) ELSE r2
        ByEmail(p) == p.email = q.email[1]
        r4 == IF q.email # None THEN SelectSeq(r3, ByEmail) ELSE r3
        ByPhone(p) == p.phone = q.phone[1]
        r5 == IF q.phone # None THEN SelectSeq(r4, ByPhone) ELSE r4
        ByBirthDate(p) == str_date(p.birth_date) = q.birth_date[1]
        r6 == IF q.birth_date # None THEN SelectSeq(r5, ByBirthDate) ELSE r5
        ByCity(p) == AnyCity(p, q.city[1])
        r7 == IF q.city # None THEN SelectSeq(r6, ByCity) ELSE r6
        ByCountry(p) == AnyCountry(p, q.country[1])
        r8 == IF q.country # None THEN SelectSeq(r7, ByCountry) ELSE r7
    IN Outcome(persons, Response("list_persons", 0, 200, r8))

get_person(person_id) ==
    IF person_id \notin Keys(persons)
    THEN Outcome(persons,
                 Raised("get_person", 0, HTTPException(404, "Person not found")))
    ELSE Outcome(persons, Response("get_person", 0, 200, Lookup(persons, person_id)))

update_person(person_id, update) ==
    IF person_id \notin Keys(persons)
    THEN Outcome(persons, Raised("update_person", Cardinality(update.fields_set),
                                 HTTPException(404, "Person not found")))
    ELSE LET stored == DictUpdate(model_dump(Lookup(persons, person_id)),
                                  model_dump_exclude_unset(update))
         IN IF PersonRead_valid(stored)
            THEN LET written == SetItem(persons, person_id,
                                        PersonRead(stored, 0, 0, 0))
                 IN Outcome(written,
                            Response("update_person", Cardinality(update.fields_set),
                                     200, Lookup(written, person_id)))
            ELSE Outcome(persons,
                         Unhandled("update_person", Cardinality(update.fields_set),
                                   "ValidationError"))

(* ---- Class endpoints ---- *)
\* class_read.id: ClassRead declares no id, so reading it raises AttributeError
create_class(cls, t1, t2) ==
    LET class_read == ClassRead(class_model_dump(cls), t1, t2)
    IN IF "id" \in DOMAIN class_read
       THEN Outcome(SetItem(classes, class_read["id"], class_read),
                    Response("create_class", 0, 201, class_read))
       ELSE Outcome(classes, Unhandled("create_class", 0, "AttributeError"))

list_classes(q) ==
    LET r0 == Values(classes)
        ByName(c) == c.name = q.name[1]
        r1 == IF q.name # None THEN SelectSeq(r0, ByName) ELSE r0
        ByDescription(c) == c.description = q.description
        r2 == IF q.description # None THEN SelectSeq(r1, ByDescription) ELSE r1
    IN Outcome(classes, Response("list_classes", 0, 200, r2))

get_class(class_id) ==
    IF class_id \notin Keys(classes)
    THEN Outcome(classes, Raised("get_class", 0, HTTPException(404, "Class not found")))
    ELSE Outcome(classes, Response("get_class", 0, 200, Lookup(classes, class_id)))

update_class(class_id, update) ==
    IF class_id \notin Keys(classes)
    THEN Outcome(classes, Raised("update_class", Cardinality(update.fields_set),
                                 HTTPException(404, "Class not found")))
    ELSE LET stored == DictUpdate(class_model_dump(Lookup(classes, class_id)),
                                  model_dump_exclude_unset(update))
         IN IF ClassRead_valid(stored)
            THEN LET written == SetItem(classes, class_id, ClassRead(stored, 0, 0))
                 IN Outcome(written,
                            Response("update_class", Cardinality(update.fields_set),
                                     200, Lookup(written, class_id)))
            ELSE Outcome(classes,
                         Unhandled("update_class", Cardinality(update.fields_set),
                                   "ValidationError"))

(* ---- Account endpoints ---- *)
create_account(account, uuid4, t1, t2) ==
    LET account_read == AccountRead(model_dump(account), uuid4, t1, t2)
    IN Outcome(SetItem(accounts, account_read.id, account_read),
               Response("create_account", 0, 201, account_read))

\* list_accounts with its last filter applied to the unfiltered list
list_accounts_restart(q) ==
    LET r0 == Values(accounts)
        ByUsername(a) == a.username = q.username[1]
        r1 == IF q.username # None THEN SelectSeq(r0, ByUsername) ELSE r0
        ByNumberId(a) == a.number_id = q.number_id[1]
        r2 == IF q.number_id # None THEN SelectSeq(r1, ByNumberId) ELSE r1
        ByAmount(a) == a.amount = q.amount[1]
        r3 == IF q.amount # None THEN SelectSeq(r0, ByAmount) ELSE r2
    IN Outcome(accounts, Response("list_accounts", 0, 200, r3))

list_accounts(q) ==
    LET r0 == Values(accounts)
        ByUsername(a) == a.username = q.username[1]
        r1 == IF q.username # None THEN SelectSeq(r0, ByUsername) ELSE r0
        ByNumberId(a) == a.number_id = q.number_id[1]
        r2 == IF q.number_id # None THEN SelectSeq(r1, ByNumberId) ELSE r1
        ByAmount(a) == a.amount = q.amount[1]
        r3 == IF q.amount # None THEN SelectSeq(r2, ByAmount) ELSE r2
    IN Outcome(accounts, Response("list_accounts", 0, 200, r3))

\* get_account without its check for an unknown id: the lookup raises KeyError
get_account_unchecked(account_id) ==
    IF account_id \notin Keys(accounts)
    THEN Outcome(accounts, Unhandled("get_account", 0, "KeyError"))
    ELSE Outcome(accounts,
                 Response("get_account", 0, 200, Lookup(accounts, account_id)))

get_account(account_id) ==
    IF account_id \notin Keys(accounts)
    THEN Outcome(accounts,
                 Raised("get_account", 0, HTTPException(404, "Account not found")))
    ELSE Outcome(accounts,
                 Response("get_account", 0, 200, Lookup(accounts, account_id)))

\* update_account writing field by field: the fields of the payload that hold
\* a value are stored before the merged record is found to be invalid
update_account_eager(account_id, update) ==
    IF account_id \notin Keys(accounts)
    THEN Outcome(accounts, Raised("update_account", Cardinality(update.fields_set),
                                  HTTPException(404, "Account not found")))
    ELSE LET dumped == model_dump(Lookup(accounts, account_id))
             stored == DictUpdate(dumped, model_dump_exclude_unset(update))
             part == [f \in {g \in update.fields_set : update[g] # None}
                        |-> update[f]]
             written == SetItem(accounts, account_id,
                                AccountRead(DictUpdate(dumped, part), 0, 0, 0))
         IN IF AccountRead_valid(stored)
            THEN Outcome(written, Response("update_account",
                                           Cardinality(update.fields_set), 200,
                                           Lookup(written, account_id)))
            ELSE Outcome(written, Unhandled("update_account",
                                            Cardinality(update.fields_set),
                                            "ValidationError"))

update_account(account_id, update) ==
    IF account_id \notin Keys(accounts)
    THEN Outcome(accounts, Raised("update_account", Cardinality(update.fields_set),
                                  HTTPException(404, "Account not found")))
    ELSE LET stored == DictUpdate(model_dump(Lookup(accounts, account_id)),
                                  model_dump_exclude_unset(update))
         IN IF AccountRead_valid(stored)
            THEN LET written == SetItem(accounts, account_id,
                                        AccountRead(stored, 0, 0, 0))
                 IN Outcome(written,
                            Response("update_account", Cardinality(update.fields_set),
                                     200, Lookup(written, account_id)))
            ELSE Outcome(accounts,
                         Unhandled("update_account", Cardinality(update.fields_set),
                                   "ValidationError"))

(* ------------------------------------------------- the requests of a client *)
\* the query parameters of a list request: at most MaxSet of them given
NumSet(q) == Cardinality({f \in DOMAIN q : q[f] # None})

AddressQuery ==
    Listed({q \in [street : Opt(Streets), city : Opt(Cities), state : Opt(States),
                   postal_code : Opt(PostalCodes), country : Opt(Countries)] :
               NumSet(q) <= MaxSet})

\* the texts a client may send as birth_date
BirthDateTexts ==
    { <<"2", "0", "0", "0", "-", "0", "1", "-", "1", "5">>,
      <<"2", "0", "0", "0", "-", "1", "-", "1", "5">> }

PersonQuery ==
    Listed({q \in [uni : Opt(Unis), first_name : Opt(FirstNames), last_name : Opt(LastNames),
                   email : Opt(Emails), phone : Opt(Phones), birth_date : Opt(BirthDateTexts),
                   city : Opt({"NYC", "Boston", "Chicago"}),
                   country : Opt({"US", "UK"})] :
               NumSet(q) <= MaxSet})

ClassQuery ==
    Listed({q \in [name : Opt(Names), description : Opt(Descriptions)] : NumSet(q) <= MaxSet})

AccountQuery ==
    Listed({q \in [username : Opt(Usernames), number_id : Opt(NumberIds),
                   amount : Opt(Amounts)] : NumSet(q) <= MaxSet})

\* the worker threads that run the handlers of concurrent requests, and a
\* thread that runs none
Threads == 1..MaxThreads
Idle == [pc |-> "idle", account_id |-> 0, update |-> None, stored |-> None,
         status |-> 0]

Init ==
    /\ persons = << >>
    /\ addresses = << >>
    /\ classes = << >>
    /\ accounts = << >>
    /\ now = 0
    /\ uuids = 0
    /\ last = Response("none", 0, 0, [detail |-> "none"])
    /\ threads = [t \in Threads |-> Idle]

\* time passes between two requests
Tick ==
    /\ now < MaxClock
    /\ now' = now + 1
    /\ UNCHANGED <<persons, addresses, classes, accounts, uuids, last, threads>>

\* the clock reads of a record under construction: created_at, then updated_at
Reads(t1, t2) == now <= t1 /\ t1 <= t2

POST_addresses ==
    \E address \in AddressCreate, t1 \in Times, t2 \in Times :
        /\ IF address.id \in Keys(addresses)
           THEN t1 = now /\ t2 = now
           ELSE Room(addresses) /\ Reads(t1, t2)
        /\ LET out == create_address(address, t1, t2)
           IN addresses' = out.store /\ last' = out.response
        /\ now' = t2
        /\ UNCHANGED <<persons, classes, accounts, uuids, threads>>

GET_addresses ==
    \E q \in AddressQuery :
        /\ last' = list_addresses(q).response
        /\ UNCHANGED <<persons, addresses, classes, accounts, now, uuids, threads>>

GET_address ==
    \E address_id \in UUIDs :
        /\ last' = get_address(address_id).response
        /\ UNCHANGED <<persons, addresses, classes, accounts, now, uuids, threads>>

PATCH_address ==
    \E address_id \in UUIDs, update \in AddressUpdate :
        /\ LET out == update_address(address_id, update)
           IN addresses' = out.store /\ last' = out.response
        /\ UNCHANGED <<persons, classes, accounts, now, uuids, threads>>

POST_persons ==
    \E person \in PersonCreate, t1 \in Times, t2 \in Times :
        /\ Room(persons) /\ Reads(t1, t2)
        /\ LET out == create_person(person, uuids + 1, t1, t2)
           IN persons' = out.store /\ last' = out.response
        /\ uuids' = uuids + 1
        /\ now' = t2
        /\ UNCHANGED <<addresses, classes, accounts, threads>>

GET_persons ==
    \E q \in PersonQuery :
        /\ last' = list_persons(q).response
        /\ UNCHANGED <<persons, addresses, classes, accounts, now, uuids, threads>>

GET_person ==
    \E person_id \in UUIDs :
        /\ last' = get_person(person_id).response
        /\ UNCHANGED <<persons, addresses, classes, accounts, now, uuids, threads>>

PATCH_person ==
    \E person_id \in UUIDs, update \in PersonUpdate :
        /\ LET out == update_person(person_id, update)
           IN persons' = out.store /\ last' = out.response
        /\ UNCHANGED <<addresses, classes, accounts, now, uuids, threads>>

POST_classes ==
    \E cls \in ClassCreate, t1 \in Times, t2 \in Times :
        /\ Reads(t1, t2)
        /\ LET out == create_class(cls, t1, t2)
           IN /\ out.response.status = 201 => Room(classes)
              /\ classes' = out.store /\ last' = out.response
        /\ now' = t2
        /\ UNCHANGED <<persons, addresses, accounts, uuids, threads>>

GET_classes ==
    \E q \in ClassQuery :
        /\ last' = list_classes(q).response
        /\ UNCHANGED <<persons, addresses, classes, accounts, now, uuids, threads>>

GET_class ==
    \E class_id \in UUIDs :
        /\ last' = get_class(class_id).response
        /\ UNCHANGED <<persons, addresses, classes, accounts, now, uuids, threads>>

PATCH_class ==
    \E class_id \in UUIDs, update \in ClassUpdate :
        /\ LET out == update_class(class_id, update)
           IN classes' = out.store /\ last' = out.response
        /\ UNCHANGED <<persons, addresses, accounts, now, uuids, threads>>

POST_accounts ==
    \E account \in AccountCreate, t1 \in Times, t2 \in Times :
        /\ Room(accounts) /\ Reads(t1, t2)
        /\ LET out == create_account(account, uuids + 1, t1, t2)
           IN accounts' = out.store /\ last' = out.response
        /\ uuids' = uuids + 1
        /\ now' = t2
        /\ UNCHANGED <<persons, addresses, classes, threads>>

GET_accounts ==
    \E q \in AccountQuery :
        /\ last' = list_accounts(q).response
        /\ UNCHANGED <<persons, addresses, classes, accounts, now, uuids, threads>>

GET_account ==
    \E account_id \in UUIDs :
        /\ last' = get_account(account_id).response
        /\ UNCHANGED <<persons, addresses, classes, accounts, now, uuids, threads>>

PATCH_account ==
    \E account_id \in UUIDs, update \in AccountUpdate :
        /\ LET out == update_account(account_id, update)
           IN accounts' = out.store /\ last' = out.response
        /\ UNCHANGED <<persons, addresses, classes, now, uuids, threads>>

Next ==
    \/ Tick
    \/ POST_addresses \/ GET_addresses \/ GET_address \/ PATCH_address
    \/ POST_persons \/ GET_persons \/ GET_person \/ PATCH_person
    \/ POST_classes \/ GET_classes \/ GET_class \/ PATCH_class
    \/ POST_accounts \/ GET_accounts \/ GET_account \/ PATCH_account

Spec == Init /\ [][Next]_vars

(* ------------------------------------- update_account, run by worker threads *)
\* update_account is a plain def: the framework runs it on a worker thread, and
\* the threads of concurrent requests switch between the statements of lines
\* 240 to 245, each of which reads or writes the shared dict once.

\* the other stores, the clock and the ids: untouched by update_account
Rest == <<persons, addresses, classes, now, uuids>>

\* one account is stored when the requests arrive
ThreadInit ==
    /\ persons = << >>
    /\ addresses = << >>
    /\ classes = << >>
    /\ accounts = SetItem(<< >>, 1,
                          AccountRead(model_dump([username |-> "alice",
                                                  number_id |-> 1, amount |-> 10]),
                                      1, 0, 0))
    /\ now = 0
    /\ uuids = 1
    /\ last = Response("none", 0, 0, [detail |-> "none"])
    /\ threads = [t \in Threads |-> Idle]

\* what thread t answers: the response, and the handler is over
Answer(t, response) ==
    /\ last' = response
    /\ threads' = [threads EXCEPT ![t].pc = "done", ![t].status = response.status]

\* a PATCH /accounts/{account_id} arrives and is given to thread t
Call(t) ==
    \E account_id \in UUIDs, update \in AccountUpdate :
        /\ threads[t].pc = "idle"
        /\ threads' = [threads EXCEPT ![t] =
                [Idle EXCEPT !.pc = "240", !.account_id = account_id,
                             !.update = update]]
        /\ UNCHANGED <<accounts, last, Rest>>

\* line 240: if account_id not in accounts: raise HTTPException(404)
Check(t) ==
    /\ threads[t].pc = "240"
    /\ IF threads[t].account_id \in Keys(accounts)
       THEN threads' = [threads EXCEPT ![t].pc = "242"] /\ UNCHANGED last
       ELSE Answer(t, Raised("update_account",
                             Cardinality(threads[t].update.fields_set),
                             HTTPException(404, "Account not found")))
    /\ UNCHANGED <<accounts, Rest>>

\* line 242: stored = accounts[account_id].model_dump()
Dump(t) ==
    /\ threads[t].pc = "242"
    /\ threads' = [threads EXCEPT
            ![t].pc = "243",
            ![t].stored = model_dump(Lookup(accounts, threads[t].account_id))]
    /\ UNCHANGED <<accounts, last, Rest>>

\* line 243: stored.update(update.model_dump(exclude_unset=True))
Merge(t) ==
    /\ threads[t].pc = "243"
    /\ threads' = [threads EXCEPT
            ![t].pc = "244",
            ![t].stored = DictUpdate(threads[t].stored,
                                     model_dump_exclude_unset(threads[t].update))]
    /\ UNCHANGED <<accounts, last, Rest>>

\* line 244: accounts[account_id] = AccountRead(**stored)
Store(t) ==
    /\ threads[t].pc = "244"
    /\ IF AccountRead_valid(threads[t].stored)
       THEN /\ accounts' = SetItem(accounts, threads[t].account_id,
                                   AccountRead(threads[t].stored, 0, 0, 0))
            /\ threads' = [threads EXCEPT ![t].pc = "245"]
            /\ UNCHANGED last
       ELSE /\ Answer(t, Unhandled("update_account",
                                   Cardinality(threads[t].update.fields_set),
                                   "ValidationError"))
            /\ UNCHANGED accounts
    /\ UNCHANGED Rest

\* line 245: return accounts[account_id]
Return(t) ==
    /\ threads[t].pc = "245"
    /\ Answer(t, Response("update_account",
                          Cardinality(threads[t].update.fields_set), 200,
                          Lookup(accounts, threads[t].account_id)))
    /\ UNCHANGED <<accounts, Rest>>

ThreadNext ==
    \E t \in Threads :
        Call(t) \/ Check(t) \/ Dump(t) \/ Merge(t) \/ Store(t) \/ Return(t)

ThreadSpec == ThreadInit /\ [][ThreadNext]_vars

(* ------------------------------------------------------------ properties *)
PatchOps == {"update_address", "update_person", "update_class", "update_account"}

\* a record without its updated_at
Frame(r) == [f \in DOMAIN r \ {"updated_at"} |-> r[f]]

\* C1: every successful merge-update stamps updated_at with the time of the
\* call: a step that ends in a 200 response of a PATCH handler (the clock does
\* not move during a PATCH) leaves the returned, stored record with
\* updated_at equal to the clock. Stated for the collections whose Read shape
\* is in src/models.
C1_UpdatedAtIsTimeOfCall ==
    [][(last'.op \in {"update_account", "update_class"} /\ last'.status = 200
            /\ now' = now)
           => last'.body.updated_at = now']_vars

\* the overlay the merge-update contract asks for: each domain field that u set
\* holds u's value, every other field of r is as it was
Overlay(r, u, fields) ==
    [f \in DOMAIN r |-> IF f \in fields /\ f \in u.fields_set THEN u[f][1] ELSE r[f]]
ClassOverlay(r, u) ==
    [f \in DOMAIN r |->
        IF f \notin u.fields_set \/ f \notin ClassFields THEN r[f]
        ELSE IF f = "description" THEN u[f] ELSE u[f][1]]

\* C2: in every reachable state, for every stored record r and every Update
\* payload u, a merge_update(r.id, u) that succeeds leaves under r's key a
\* record with u's value in each domain field u set and r's value in every
\* other domain field, in id and in created_at.
C2_MergeChangesExactlySetFields ==
    /\ \A k \in Keys(accounts), u \in AccountUpdate :
        LET out == update_account(k, u) IN
        out.response.status = 200 =>
            Frame(Lookup(out.store, k)) = Frame(Overlay(Lookup(accounts, k), u, AccountFields))
    /\ \A k \in Keys(persons), u \in PersonUpdate :
        LET out == update_person(k, u) IN
        out.response.status = 200 =>
            Frame(Lookup(out.store, k)) = Frame(Overlay(Lookup(persons, k), u, PersonFields))
    /\ \A k \in Keys(addresses), u \in AddressUpdate :
        LET out == update_address(k, u) IN
        out.response.status = 200 =>
            Frame(Lookup(out.store, k)) = Frame(Overlay(Lookup(addresses, k), u, AddressFields))
    /\ \A k \in Keys(classes), u \in ClassUpdate :
        LET out == update_class(k, u) IN
        out.response.status = 200 =>
            Frame(Lookup(out.store, k)) = Frame(ClassOverlay(Lookup(classes, k), u))

\* a PATCH that set two fields of an account has succeeded
C2_Witness ==
    last.op = "update_account" /\ last.status = 200 /\ last.n = 2

\* C3: merge_update fails only with NotFound: the response of a PATCH handler
\* is the new record (200) or NotFound (404), whatever the payload.
C3_PatchFailsOnlyWithNotFound ==
    last.op \in PatchOps => last.status \in {200, 404}

\* C4: a create-call on the Class collection succeeds, stores the record and
\* returns it.
C4_CreateClassStores ==
    last.op = "create_class" =>
        /\ last.status = 201
        /\ \E i \in 1..Len(classes) : classes[i].val = last.body

\* what create promises for a collection with server-generated ids: one new
\* entry, under a key no entry had, holding the payload's fields
Created(store, out, payload, fields) ==
    /\ out.response.status = 201
    /\ out.response.body.id \notin Keys(store)
    /\ out.store = Append(store, [key |-> out.response.body.id, val |-> out.response.body])
    /\ \A f \in fields : out.response.body[f] = payload[f]

\* C5: in every reachable state, for every valid Create payload of Person,
\* Class and Account, create stores one new record that holds the payload's
\* fields under an id no record of that store has, and changes no other entry.
C5_CreateAddsOneFreshRecord ==
    /\ \A account \in AccountCreate, t1 \in Times, t2 \in Times :
        Created(accounts, create_account(account, uuids + 1, t1, t2), account,
                AccountFields)
    /\ \A person \in PersonCreate, t1 \in Times, t2 \in Times :
        Created(persons, create_person(person, uuids + 1, t1, t2), person, PersonFields)
    /\ \A cls \in ClassCreate, t1 \in Times, t2 \in Times :
        Created(classes, create_class(cls, t1, t2), cls, ClassFields)

\* C6: in every reachable state, creating an Address whose id is a key of the
\* Address store answers 400 and leaves the store as it was; with a new id it
\* answers 201 with the record, added under that id after the entries there.
C6_DuplicateAddressRejected ==
    \A address \in AddressCreate, t1 \in Times, t2 \in Times :
        LET out == create_address(address, t1, t2) IN
        IF address.id \in Keys(addresses)
        THEN out.response.status = 400 /\ out.store = addresses
        ELSE /\ out.response.status = 201
             /\ out.response.body.id = address.id
             /\ \A f \in AddressFields : out.response.body[f] = address[f]
             /\ out.store = Append(addresses,
                                   [key |-> address.id, val |-> out.response.body])

\* a create with the id of a stored Address was answered 400
C6_Witness ==
    last.op = "create_address" /\ last.status = 400 /\ addresses # << >>

\* C7: in every reachable state and on every collection, a get-by-id or a
\* PATCH with an id that is no key of the store answers 404 and leaves the
\* store as it was: no entry is made for the id, no record is changed.
C7_NotFoundChangesNothing ==
    /\ \A k \in UUIDs \ Keys(accounts) :
        /\ get_account(k) = Outcome(accounts, get_account(k).response)
        /\ get_account(k).response.status = 404
        /\ \A u \in AccountUpdate :
            LET out == update_account(k, u) IN
            out.response.status = 404 /\ out.store = accounts
    /\ \A k \in UUIDs \ Keys(persons) :
        /\ get_person(k) = Outcome(persons, get_person(k).response)
        /\ get_person(k).response.status = 404
        /\ \A u \in PersonUpdate :
            LET out == update_person(k, u) IN
            out.response.status = 404 /\ out.store = persons
    /\ \A k \in UUIDs \ Keys(addresses) :
        /\ get_address(k) = Outcome(addresses, get_address(k).response)
        /\ get_address(k).response.status = 404
        /\ \A u \in AddressUpdate :
            LET out == update_address(k, u) IN
            out.response.status = 404 /\ out.store = addresses
    /\ \A k \in UUIDs \ Keys(classes) :
        /\ get_class(k) = Outcome(classes, get_class(k).response)
        /\ get_class(k).response.status = 404
        /\ \A u \in ClassUpdate :
            LET out == update_class(k, u) IN
            out.response.status = 404 /\ out.store = classes

\* a PATCH with an unknown id was answered 404 while an account is stored
C7_Witness ==
    last.op = "update_account" /\ last.status = 404 /\ accounts # << >>

\* every given predicate of q holds of r, by equality
Matches(r, q) == \A f \in DOMAIN q : q[f] # None => r[f] = q[f][1]
ClassMatches(r, q) ==
    /\ q.name # None => r.name = q.name[1]
    /\ q.description # None => r.description = q.description

\* C8: in every reachable state and for every combination of given and
\* omitted predicates, list returns the records of the store that match every
\* given predicate, in the order of the store, each once.
C8_ListIsTheMatchingSubsequence ==
    /\ \A q \in AccountQuery :
        LET Match(r) == Matches(r, q) IN
        /\ list_accounts(q).response.status = 200
        /\ list_accounts(q).response.body = SelectSeq(Values(accounts), Match)
    /\ \A q \in AddressQuery :
        LET Match(r) == Matches(r, q) IN
        /\ list_addresses(q).response.status = 200
        /\ list_addresses(q).response.body = SelectSeq(Values(addresses), Match)
    /\ \A q \in ClassQuery :
        LET Match(r) == ClassMatches(r, q) IN
        /\ list_classes(q).response.status = 200
        /\ list_classes(q).response.body = SelectSeq(Values(classes), Match)

\* a list of two stored accounts returned one of them
C8_Witness ==
    last.op = "list_accounts" /\ Len(accounts) = 2 /\ Len(last.body) = 1

\* the cities and the countries of a Person's embedded addresses
CitiesOf(p) == {p.addresses[i].city : i \in 1..Len(p.addresses)}
CountriesOf(p) == {p.addresses[i].country : i \in 1..Len(p.addresses)}

\* C9: in every reachable state, a Person list with only city and country
\* predicates returns the Persons that have some address entry with that city
\* and some address entry, the same or another, with that country; a Person
\* without addresses is returned only when neither is given.
C9_NestedFilterIsExistential ==
    \A q \in PersonQuery :
        (\A f \in DOMAIN q \ {"city", "country"} : q[f] = None) =>
            LET Match(p) ==
                    /\ q.city # None => q.city[1] \in CitiesOf(p)
                    /\ q.country # None => q.country[1] \in CountriesOf(p)
            IN list_persons(q).response.body = SelectSeq(Values(persons), Match)

\* a list returned one of two stored Persons, one of them with two addresses
\* in different cities and countries and one without addresses
C9_Witness ==
    /\ last.op = "list_persons" /\ Len(persons) = 2 /\ Len(last.body) = 1
    /\ \E i \in 1..2 : persons[i].val.addresses = << >>
    /\ \E i \in 1..2 :
        Cardinality(CitiesOf(persons[i].val)) = 2
            /\ Cardinality(CountriesOf(persons[i].val)) = 2

\* C10: the record a create-call returns has created_at equal to updated_at,
\* however the clock moves while the record is built. Stated for the
\* collections whose Read shape is in src/models.
C10_CreatedAtEqualsUpdatedAt ==
    (last.op \in {"create_account", "create_class"} /\ last.status = 201)
        => last.body.created_at = last.body.updated_at

\* the threads that answered 200 to a PATCH of account k
Merged(k) ==
    {t \in Threads : threads[t].pc = "done" /\ threads[t].status = 200
                        /\ threads[t].account_id = k}

\* C11: concurrent merge_updates take effect as if run one after the other:
\* once every thread has answered, each field that a successful PATCH of a
\* record set holds the value that this PATCH, or another successful PATCH of
\* the record that set the same field, gave it. Two PATCHes that set disjoint
\* fields are then both reflected in the stored record.
C11_NoLostUpdate ==
    (\A t \in Threads : threads[t].pc = "done") =>
        \A k \in Keys(accounts) : \A t \in Merged(k) :
            \A f \in threads[t].update.fields_set :
                \E s \in Merged(k) :
                    /\ f \in threads[s].update.fields_set
                    /\ Lookup(accounts, k)[f] = threads[s].update[f][1]

\* C12: in every reachable state, for every id and every Update payload, a
\* merge_update that does not answer 200 (the id is absent, or the merged
\* record is no valid Read record) returns its store exactly as it was, and one
\* that answers 200 has stored every field the payload set: no state holds a
\* part of an update.
C12_FailedUpdateChangesNothing ==
    /\ \A k \in UUIDs, u \in AccountUpdate :
        LET out == update_account(k, u) IN
        IF out.response.status = 200
        THEN \A f \in u.fields_set : Lookup(out.store, k)[f] = u[f][1]
        ELSE out.store = accounts
    /\ \A k \in UUIDs, u \in ClassUpdate :
        LET out == update_class(k, u) IN
        out.response.status # 200 => out.store = classes
    /\ \A k \in UUIDs, u \in PersonUpdate :
        LET out == update_person(k, u) IN
        out.response.status # 200 => out.store = persons
    /\ \A k \in UUIDs, u \in AddressUpdate :
        LET out == update_address(k, u) IN
        out.response.status # 200 => out.store = addresses

\* a PATCH of a stored account that set two fields, one of them to null, has
\* failed
C12_Witness ==
    /\ last.op = "update_account" /\ last.status = 500 /\ last.n = 2
    /\ accounts # << >>

\* C13: in every reachable state, each entry of a store whose records have an
\* id is stored under that id, after creates and merge_updates alike.
C13_KeyIsRecordId ==
    /\ \A i \in 1..Len(accounts) : accounts[i].key = accounts[i].val.id
    /\ \A i \in 1..Len(persons) : persons[i].key = persons[i].val.id
    /\ \A i \in 1..Len(addresses) : addresses[i].key = addresses[i].val.id

\* a merge_update has written the second of two accounts back
C13_Witness ==
    /\ last.op = "update_account" /\ last.status = 200
    /\ Len(accounts) = 2 /\ accounts[2].val = last.body

\* the records of a store are stamped in order
Stamped(store) ==
    \A i \in 1..Len(store) : store[i].val.created_at <= store[i].val.updated_at

\* C14: in every reachable state, every stored record of every collection has
\* created_at <= updated_at; the clock of the model never goes backwards.
C14_CreatedBeforeUpdated ==
    Stamped(accounts) /\ Stamped(persons) /\ Stamped(addresses) /\ Stamped(classes)

\* an account created while the clock moved has been through a merge_update
C14_Witness ==
    /\ last.op = "update_account" /\ last.status = 200
    /\ last.body.created_at < last.body.updated_at

\* every key of the store old is a key of the store new, with the same values
\* in the given fields of its record
Kept(old, new, fields) ==
    \A k \in Keys(old) :
        /\ k \in Keys(new)
        /\ \A f \in fields : Lookup(new, k)[f] = Lookup(old, k)[f]

\* C15: no step deletes a record or changes an identity: every key of a store
\* is a key of it after the step, and the record under it keeps its id and its
\* created_at.
C15_RecordsStayAndKeepIdentity ==
    [][/\ Kept(accounts, accounts', {"id", "created_at"})
       /\ Kept(persons, persons', {"id", "created_at"})
       /\ Kept(addresses, addresses', {"id", "created_at"})
       /\ Kept(classes, classes', {"created_at"})]_vars

\* a merge_update that set no field has answered while two accounts are stored
C15_Witness ==
    last.op = "update_account" /\ last.status = 200 /\ last.n = 0 /\ Len(accounts) = 2

\* the payloads that set n fields, each to the value record r holds: such is
\* the payload of the merge_update that has just returned r
Repeats(r, n, updates) ==
    {u \in updates :
        /\ Cardinality(u.fields_set) = n
        /\ \A f \in u.fields_set : u[f] = Some(r[f])}

\* C16: in every state a successful merge_update with a non-empty payload has
\* just led to, the same payload applied to the same record once more succeeds
\* and stores a record with the same id, created_at and domain fields.
C16_SecondUpdateChangesNoContent ==
    /\ (last.op = "update_account" /\ last.status = 200 /\ last.n > 0) =>
        \A u \in Repeats(last.body, last.n, AccountUpdate) :
            LET out == update_account(last.body.id, u) IN
            /\ out.response.status = 200
            /\ Frame(Lookup(out.store, last.body.id)) = Frame(last.body)
    /\ (last.op = "update_person" /\ last.status = 200 /\ last.n > 0) =>
        \A u \in Repeats(last.body, last.n, PersonUpdate) :
            LET out == update_person(last.body.id, u) IN
            /\ out.response.status = 200
            /\ Frame(Lookup(out.store, last.body.id)) = Frame(last.body)
    /\ (last.op = "update_address" /\ last.status = 200 /\ last.n > 0) =>
        \A u \in Repeats(last.body, last.n, AddressUpdate) :
            LET out == update_address(last.body.id, u) IN
            /\ out.response.status = 200
            /\ Frame(Lookup(out.store, last.body.id)) = Frame(last.body)

\* a merge_update that set two fields of an account to new values has answered
C16_Witness ==
    /\ last.op = "update_account" /\ last.status = 200 /\ last.n = 2
    /\ last.body.username = "bob" /\ last.body.amount = 20

\* the ids of a list of records, in its order
IdsOf(records) == [i \in 1..Len(records) |-> records[i].id]
\* list requests without a predicate
AllAccounts == [username |-> None, number_id |-> None, amount |-> None]
AllAddresses == [f \in AddressFields |-> None]
AllPersons ==
    [f \in (PersonFields \ {"addresses"}) \cup {"city", "country"} |-> None]

\* C17: a merge_update replaces a record in place: the unfiltered list after a
\* PATCH step is the store of that moment, merged record included, and holds
\* the ids of the unfiltered list before the step, in the same order.
C17_UpdateKeepsListOrder ==
    [][/\ last'.op = "update_account" =>
            /\ list_accounts(AllAccounts).response.body' = Values(accounts')
            /\ IdsOf(list_accounts(AllAccounts).response.body)'
                    = IdsOf(list_accounts(AllAccounts).response.body)
       /\ last'.op = "update_address" =>
            /\ list_addresses(AllAddresses).response.body' = Values(addresses')
            /\ IdsOf(list_addresses(AllAddresses).response.body)'
                    = IdsOf(list_addresses(AllAddresses).response.body)
       /\ last'.op = "update_person" =>
            /\ list_persons(AllPersons).response.body' = Values(persons')
            /\ IdsOf(list_persons(AllPersons).response.body)'
                    = IdsOf(list_persons(AllPersons).response.body)]_vars

\* a merge_update has changed the first of two stored accounts
C17_Witness ==
    /\ last.op = "update_account" /\ last.status = 200 /\ last.n = 1
    /\ Len(accounts) = 2 /\ accounts[1].val = last.body
    /\ last.body.username = "bob" /\ accounts[2].val.username = "alice"
====
